---- MODULE Spec2Model ----
(***************************************************************************)
(* Model of sanitation/_lca.py: the LCA class, which aggregates the        *)
(* impacts of construction, transportation, waste streams and other items  *)
(* of a System over a life time.                                           *)
(*                                                                         *)
(* Python floats are modelled as exact rationals [n |-> num, d |-> den]    *)
(* in lowest terms, so +, * and / are exact; rounding is not modelled.     *)
(***************************************************************************)
EXTENDS Integers, Sequences, FiniteSets, TLC

\* ------------------------------------------------------------------------
\* Bounds of the model
\* ------------------------------------------------------------------------
\* life times offered to the life_time setter are 12 * 2^k hr, k in 0..MaxDoublings
MaxDoublings == 2
\* quantities offered to add_other_item are 1..MaxQty
MaxQty == 2

\* ------------------------------------------------------------------------
\* Exact rational arithmetic standing for float arithmetic
\* ------------------------------------------------------------------------
RECURSIVE GCD(_, _)
GCD(a, b) == IF b = 0 THEN a ELSE GCD(b, a % b)

Abs(x) == IF x < 0 THEN -x ELSE x

Rat(num, den) ==
    LET s == IF den < 0 THEN -1 ELSE 1
        g == GCD(Abs(num), Abs(den))
    IN  [n |-> (s * num) \div g, d |-> (s * den) \div g]

R(k) == [n |-> k, d |-> 1]
Zero == R(0)
RAdd(x, y) == Rat(x.n * y.d + y.n * x.d, x.d * y.d)
RSub(x, y) == Rat(x.n * y.d - y.n * x.d, x.d * y.d)
RMul(x, y) == Rat(x.n * y.n, x.d * y.d)
RDiv(x, y) == Rat(x.n * y.d, x.d * y.n)

RECURSIVE SetToSeq(_)
SetToSeq(S) ==
    IF S = {} THEN <<>>
    ELSE LET x == CHOOSE y \in S : TRUE IN <<x>> \o SetToSeq(S \ {x})

RECURSIVE RSum(_)
\* sum of the values of a function with a finite domain
RSum(f) ==
    IF DOMAIN f = {} THEN Zero
    ELSE LET x == CHOOSE y \in DOMAIN f : TRUE
         IN  RAdd(f[x], RSum([y \in DOMAIN f \ {x} |-> f[y]]))

EmptyMap == [i \in {} |-> Zero]

\* ------------------------------------------------------------------------
\* Collaborators: the unit-of-measure service, the ImpactItem registry and
\* the process systems (units, streams and their activities)
\* ------------------------------------------------------------------------
\* auom(unit).convert(value, to): units of one dimension convert by the
\* ratio of their sizes; anything else raises
Dimension == [kWh |-> "energy", MWh |-> "energy",
              kg |-> "mass", t |-> "mass",
              hr |-> "time", d |-> "time"]
UnitSize == [kWh |-> 1, MWh |-> 1000, kg |-> 1, t |-> 1000, hr |-> 1, d |-> 24]

Convertible(from, to) ==
    /\ from \in DOMAIN Dimension
    /\ to \in DOMAIN Dimension
    /\ Dimension[from] = Dimension[to]

convert(value, from, to) == RMul(value, Rat(UnitSize[from], UnitSize[to]))

\* ImpactItem._items
items ==
    [electricity |-> [ID |-> "electricity", functional_unit |-> "kWh",
                      CFs |-> [GWP |-> Rat(1, 2), AP |-> R(2)]],
     water       |-> [ID |-> "water", functional_unit |-> "kg",
                      CFs |-> [EP |-> R(3)]]]

ItemIndicators(id) == DOMAIN items[id].CFs

\* unit.construction: tuple of construction activities, each with .impacts
Construction ==
    [u1 |-> << [impacts |-> [GWP |-> R(100)]] >>,
     u2 |-> << >>,
     u3 |-> << [impacts |-> [EP |-> R(3)]], [impacts |-> [GWP |-> R(7), EP |-> R(1)]] >>,
     u4 |-> << >>]

\* unit.transportation: tuple of transportation activities, each with
\* .impacts and .interval (hr)
Transportation ==
    [u1 |-> << >>,
     u2 |-> << [impacts |-> [GWP |-> R(10)], interval |-> R(24)] >>,
     u3 |-> << [impacts |-> [GWP |-> R(4), EP |-> R(1)], interval |-> R(36)] >>,
     u4 |-> << >>]

ActivityIndicators(a) == DOMAIN a.impacts

\* ws.impact_item (HasItem = FALSE stands for None), its CFs, and ws.F_mass
Streams ==
    [s1 |-> [HasItem |-> TRUE,  CFs |-> [GWP |-> R(5)], F_mass |-> R(2)],
     s2 |-> [HasItem |-> FALSE, CFs |-> EmptyMap,       F_mass |-> R(3)],
     s3 |-> [HasItem |-> TRUE,  CFs |-> [GWP |-> R(2), EP |-> R(1)], F_mass |-> R(5)]]

StreamIndicators(s) == DOMAIN Streams[s].CFs

\* system.units and system.streams
Systems ==
    [A |-> [units |-> {"u1", "u2", "u4"}, streams |-> {"s1", "s2"}],
     B |-> [units |-> {"u3", "u4"},       streams |-> {"s2", "s3"}],
     C |-> [units |-> {"u2", "u3"},       streams |-> {"s1", "s3"}]]

AllStreams == DOMAIN Streams


\* ------------------------------------------------------------------------
\* State of one LCA instance (the __slots__ that the code assigns), plus
\* the outcome of the last call made on it
\* ------------------------------------------------------------------------
VARIABLES
    system,                \* _system: key of Systems
    construction_units,    \* _construction_units
    transportation_units,  \* _transportation_units
    lca_waste_streams,     \* _lca_waste_streams
    life_time,             \* _life_time, hr
    other_items,           \* _other_items: item ID -> stored quantity
    last                   \* the last call: its name, arguments, error raised ("" if none), value returned

vars == <<system, construction_units, transportation_units, lca_waste_streams,
          life_time, other_items, last>>

\* a quantity as the caller passes it and as the dict stores it: a float
\* (tuple = FALSE) or a (float, unit) tuple
Float(q) == [tuple |-> FALSE, q |-> q, unit |-> ""]
Pair(q, unit) == [tuple |-> TRUE, q |-> q, unit |-> unit]

\* ------------------------------------------------------------------------
\* _update_system
\* ------------------------------------------------------------------------
\* the three loops add to the sets that are already there
update_construction_units(old, sys) ==
    old \cup {u \in Systems[sys].units : Construction[u] # << >>}

update_transportation_units(old, sys) ==
    old \cup {u \in Systems[sys].units : Transportation[u] # << >>}

update_lca_waste_streams(old, sys) ==
    old \cup {ws \in Systems[sys].streams : Streams[ws].HasItem}

\* ------------------------------------------------------------------------
\* _update_life_time
\* ------------------------------------------------------------------------
update_life_time(value, unit) ==
    IF unit = "" \/ unit = "hr"
    THEN [err |-> "", life_time |-> value]
    ELSE IF Convertible(unit, "hr")
         THEN [err |-> "", life_time |-> convert(value, unit, "hr")]
         ELSE [err |-> "ConversionError", life_time |-> value]

\* ------------------------------------------------------------------------
\* add_other_item
\* ------------------------------------------------------------------------
\* items[item] for a str; an ImpactItem passed by reference is its own record
ResolveItem(form, id) ==
    IF form = "str" THEN id \in DOMAIN items ELSE TRUE

\* mutant: the quantity is stored as given, whatever its unit
StoredQuantity_unconverted(quantity, unit, fu) == quantity

\* the value stored, after the conversion to the functional unit
StoredQuantity(quantity, unit, fu) ==
    IF unit # "" /\ unit # fu
    THEN Float(convert(quantity.q, unit, fu))
    ELSE quantity

add_other_item(oi, form, id, quantity, unit) ==
    IF ~ResolveItem(form, id)
    THEN [err |-> "KeyError", other_items |-> oi]
    ELSE LET fu == items[id].functional_unit
         IN  IF unit # "" /\ unit # fu /\ ~Convertible(unit, fu)
             THEN [err |-> "ValueError", other_items |-> oi]
             ELSE [err |-> "",
                   other_items |->
                       [k \in DOMAIN oi \cup {id} |->
                           IF k = id THEN StoredQuantity(quantity, unit, fu)
                           ELSE oi[k]]]

\* ------------------------------------------------------------------------
\* __init__: the loop over **item_quantities
\* ------------------------------------------------------------------------
\* try: q_number, q_unit = quantity; add_other_item(item, q_number, q_unit)
\* except: add_other_item(item, quantity)
\* The bare except catches the unpacking error of a float and also whatever
\* the first add_other_item raises.
init_other_item(oi, id, quantity) ==
    LET first == IF quantity.tuple
                 THEN add_other_item(oi, "str", id, Float(quantity.q), quantity.unit)
                 ELSE [err |-> "TypeError", other_items |-> oi]
    IN  IF first.err = "" THEN first
        ELSE add_other_item(oi, "str", id, quantity, "")

RECURSIVE init_other_items(_, _, _)
init_other_items(oi, keys, item_quantities) ==
    IF keys = << >> THEN [err |-> "", other_items |-> oi]
    ELSE LET r == init_other_item(oi, Head(keys), item_quantities[Head(keys)])
         IN  IF r.err # "" THEN r
             ELSE init_other_items(r.other_items, Tail(keys), item_quantities)


\* ------------------------------------------------------------------------
\* Derived views (properties), recomputed on every read
\* ------------------------------------------------------------------------
RECURSIVE Concat(_)
\* sum((...), ()): concatenation of a sequence of tuples
Concat(ss) == IF ss = << >> THEN << >> ELSE Head(ss) \o Concat(Tail(ss))

\* the iteration order of a Python set is arbitrary; SetToSeq fixes one
construction_inventory ==
    LET us == SetToSeq(construction_units)
    IN  Concat([k \in 1..Len(us) |-> Construction[us[k]]])

transportation_inventory ==
    LET us == SetToSeq(transportation_units)
    IN  Concat([k \in 1..Len(us) |-> Transportation[us[k]]])

\* tuple(i.impact_item for i in lca_waste_streams); an entry is named by
\* the stream it is linked to (j.linked_ws)
waste_stream_inventory == SetToSeq(lca_waste_streams)

Range(sq) == {sq[k] : k \in 1..Len(sq)}

indicators ==
    LET constr == UNION {ActivityIndicators(a) : a \in Range(construction_inventory)}
        trans  == UNION {ActivityIndicators(a) : a \in Range(transportation_inventory)}
        ws     == UNION {StreamIndicators(j) : j \in Range(waste_stream_inventory)}
        add    == UNION {ItemIndicators(i) : i \in DOMAIN other_items}
    IN  constr \cup trans \cup ws \cup add

\* dict.fromkeys((i.ID for i in self.indicators), 0.)
fromkeys == [i \in indicators |-> Zero]

\* for m, n in contribution.items(): impacts[m] += n
Accumulate(impacts, contribution) ==
    [m \in DOMAIN impacts |->
        IF m \in DOMAIN contribution THEN RAdd(impacts[m], contribution[m])
        ELSE impacts[m]]

RECURSIVE Fold(_, _)
\* the outer loop over the contributing entities, in order
Fold(impacts, contributions) ==
    IF contributions = << >> THEN impacts
    ELSE Fold(Accumulate(impacts, Head(contributions)), Tail(contributions))

construction_contribution(j) == j.impacts

construction_impacts ==
    LET inv == construction_inventory
    IN  Fold(fromkeys, [k \in 1..Len(inv) |-> construction_contribution(inv[k])])

\* mutant: the life time is left out of the scaling
transportation_contribution_unscaled(j, hr) ==
    [m \in DOMAIN j.impacts |-> RDiv(j.impacts[m], j.interval)]

\* n*hr/j.interval
transportation_contribution(j, hr) ==
    [m \in DOMAIN j.impacts |-> RDiv(RMul(j.impacts[m], hr), j.interval)]

transportation_impacts ==
    LET inv == transportation_inventory
    IN  Fold(fromkeys, [k \in 1..Len(inv) |-> transportation_contribution(inv[k], life_time)])

\* n*hr*ws.F_mass
ws_contribution(j, hr) ==
    [m \in DOMAIN Streams[j].CFs |->
        RMul(RMul(Streams[j].CFs[m], hr), Streams[j].F_mass)]

\* if ws is exclude: continue   (exclude = "None" skips nothing)
ws_included(inv, exclude) == SelectSeq(inv, LAMBDA j : j # exclude)

get_ws_impacts(exclude) ==
    LET inv == ws_included(waste_stream_inventory, exclude)
    IN  Fold(fromkeys, [k \in 1..Len(inv) |-> ws_contribution(inv[k], life_time)])

waste_stream_impacts == get_ws_impacts("None")

\* n*k; a stored (float, unit) tuple cannot be multiplied by a float
\* factor and the += raises TypeError
other_contribution(j) ==
    [m \in DOMAIN items[j].CFs |-> RMul(items[j].CFs[m], other_items[j].q)]

other_raises ==
    \E j \in DOMAIN other_items : other_items[j].tuple /\ DOMAIN items[j].CFs # {}

other_impacts ==
    IF other_raises THEN [err |-> "TypeError", val |-> EmptyMap]
    ELSE LET ks == SetToSeq(DOMAIN other_items)
         IN  [err |-> "",
              val |-> Fold(fromkeys, [k \in 1..Len(ks) |-> other_contribution(ks[k])])]

\* the sum over (construction_impacts, transportation_impacts, ws_impacts,
\* other_impacts), in this order
get_total_impacts(exclude) ==
    LET ws_impacts == get_ws_impacts(exclude)
    IN  IF other_impacts.err # "" THEN other_impacts
        ELSE [err |-> "",
              val |-> Fold(fromkeys, << construction_impacts, transportation_impacts,
                                        ws_impacts, other_impacts.val >>)]

total_impacts == get_total_impacts("None")

\* for i in impacts.values(): i /= waste_stream.F_mass
\* i is a local name bound to a float; the quotient is bound to i and
\* dropped, the dict keeps its values
divide_values(impacts, F_mass) ==
    LET quotients == [m \in DOMAIN impacts |-> RDiv(impacts[m], F_mass)]
    IN  impacts

\* mutant: the cached streams pass the assertion too
in_system_streams_or_cached(waste_stream) ==
    waste_stream \in Systems[system].streams \cup lca_waste_streams

\* assert waste_stream in self.system.streams
in_system_streams(waste_stream) == waste_stream \in Systems[system].streams

get_normalized_impacts(waste_stream) ==
    IF ~in_system_streams(waste_stream)
    THEN [err |-> "AssertionError", val |-> EmptyMap]
    ELSE LET impacts == get_total_impacts(waste_stream)
         IN  IF impacts.err # "" THEN impacts
             ELSE [err |-> "", val |-> divide_values(impacts.val, Streams[waste_stream].F_mass)]

\* ------------------------------------------------------------------------
\* Inputs
\* ------------------------------------------------------------------------
RECURSIVE Pow2(_)
Pow2(k) == IF k = 0 THEN 1 ELSE 2 * Pow2(k - 1)

LifeTimes == {R(12 * Pow2(k)) : k \in 0..MaxDoublings}
Quantities == {R(q) : q \in 1..MaxQty}
QuantityUnits == {"", "kWh", "MWh", "kg"}
ItemKeys == {"electricity", "water", "ghost"}
ItemForms == {"str", "ref"}

\* keyword arguments of the constructor
KwQuantities == {Float(R(1)), Pair(R(2), "MWh"), Pair(R(1), "kg")}
KwArgs == UNION {[ks -> KwQuantities] : ks \in SUBSET ItemKeys}
\* (life_time, life_time_unit) of the constructor
InitLifeTimes == {<<R(48), "hr">>, <<R(1), "d">>, <<R(12), "">>, <<R(1), "kg">>}

\* ------------------------------------------------------------------------
\* __init__
\* ------------------------------------------------------------------------
\* A constructor call that raises leaves no instance: the initial states are
\* those of the calls that return.
Init ==
    \E sys \in DOMAIN Systems, lt \in InitLifeTimes, item_quantities \in KwArgs :
        LET l  == update_life_time(lt[1], lt[2])
            oi == init_other_items(EmptyMap, SetToSeq(DOMAIN item_quantities), item_quantities)
        IN  /\ l.err = ""
            /\ oi.err = ""
            /\ construction_units = update_construction_units({}, sys)
            /\ transportation_units = update_transportation_units({}, sys)
            /\ lca_waste_streams = update_lca_waste_streams({}, sys)
            /\ system = sys
            /\ life_time = l.life_time
            /\ other_items = oi.other_items
            /\ last = [op |-> "__init__", item_quantities |-> item_quantities]

\* ------------------------------------------------------------------------
\* Operations
\* ------------------------------------------------------------------------
\* lca.system = i
SetSystem(sys) ==
    /\ construction_units' = update_construction_units(construction_units, sys)
    /\ transportation_units' = update_transportation_units(transportation_units, sys)
    /\ lca_waste_streams' = update_lca_waste_streams(lca_waste_streams, sys)
    /\ system' = sys
    /\ last' = [op |-> "system", sys |-> sys, err |-> ""]
    /\ UNCHANGED <<life_time, other_items>>

\* lca.life_time = value: the setter is called with the value alone, so
\* unit is its default 'hr'
SetLifeTime(value) ==
    LET l == update_life_time(value, "hr")
    IN  /\ life_time' = l.life_time
        /\ last' = [op |-> "life_time", value |-> value, err |-> l.err,
                     \* what the views read before the call
                     old |-> [life_time |-> life_time,
                              construction_impacts |-> construction_impacts,
                              transportation_impacts |-> transportation_impacts,
                              waste_stream_impacts |-> waste_stream_impacts,
                              other_impacts |-> other_impacts]]
        /\ UNCHANGED <<system, construction_units, transportation_units,
                       lca_waste_streams, other_items>>

AddOtherItem(form, id, quantity, unit) ==
    /\ form = "ref" => id \in DOMAIN items
    /\ LET r == add_other_item(other_items, form, id, Float(quantity), unit)
       IN  /\ other_items' = r.other_items
           /\ last' = [op |-> "add_other_item", form |-> form, item |-> id,
                       quantity |-> quantity, unit |-> unit, err |-> r.err,
                       \* the dict before the call
                       old |-> other_items]
    /\ UNCHANGED <<system, construction_units, transportation_units,
                   lca_waste_streams, life_time>>

GetNormalizedImpacts(waste_stream) ==
    /\ LET r == get_normalized_impacts(waste_stream)
       IN  last' = [op |-> "get_normalized_impacts", waste_stream |-> waste_stream,
                    err |-> r.err, val |-> r.val]
    /\ UNCHANGED <<system, construction_units, transportation_units,
                   lca_waste_streams, life_time, other_items>>

Next ==
    \/ \E sys \in DOMAIN Systems : SetSystem(sys)
    \/ \E value \in LifeTimes : SetLifeTime(value)
    \/ \E form \in ItemForms, id \in ItemKeys, quantity \in Quantities, unit \in QuantityUnits :
           AddOtherItem(form, id, quantity, unit)
    \/ \E waste_stream \in AllStreams : GetNormalizedImpacts(waste_stream)

Spec == Init /\ [][Next]_vars

TypeOK ==
    /\ system \in DOMAIN Systems
    /\ construction_units \subseteq DOMAIN Construction
    /\ lca_waste_streams \subseteq AllStreams
    /\ DOMAIN other_items \subseteq DOMAIN items

\* ------------------------------------------------------------------------
\* Closed forms used to state the properties
\* ------------------------------------------------------------------------
\* the activities of a set of units, each named by its unit and position
Activities(table, us) == UNION {{<<u, k>> : k \in 1..Len(table[u])} : u \in us}

ConstructionSum(i) ==
    LET acts == {p \in Activities(Construction, construction_units) :
                    i \in DOMAIN Construction[p[1]][p[2]].impacts}
    IN  RSum([p \in acts |-> Construction[p[1]][p[2]].impacts[i]])

TransportationSum(i, hr) ==
    LET acts == {p \in Activities(Transportation, transportation_units) :
                    i \in DOMAIN Transportation[p[1]][p[2]].impacts}
    IN  RSum([p \in acts |->
                RDiv(RMul(Transportation[p[1]][p[2]].impacts[i], hr),
                     Transportation[p[1]][p[2]].interval)])

\* the contribution of one stream to indicator i
OwnContribution(s, i, hr) ==
    IF s \in lca_waste_streams /\ i \in DOMAIN Streams[s].CFs
    THEN RMul(RMul(Streams[s].CFs[i], hr), Streams[s].F_mass)
    ELSE Zero

WasteStreamSum(i, hr) ==
    RSum([s \in lca_waste_streams |-> OwnContribution(s, i, hr)])

OtherSum(i) ==
    LET ks == {j \in DOMAIN other_items : i \in DOMAIN items[j].CFs}
    IN  RSum([j \in ks |-> RMul(items[j].CFs[i], other_items[j].q)])

IndicatorUnion ==
    UNION ( {DOMAIN Construction[p[1]][p[2]].impacts :
                p \in Activities(Construction, construction_units)}
       \cup {DOMAIN Transportation[p[1]][p[2]].impacts :
                p \in Activities(Transportation, transportation_units)}
       \cup {DOMAIN Streams[s].CFs : s \in lca_waste_streams}
       \cup {DOMAIN items[j].CFs : j \in DOMAIN other_items} )

\* a (quantity, unit) pair whose unit differs from and does not convert to
\* the functional unit of the item
Inconvertible(id, unit) ==
    /\ id \in DOMAIN items
    /\ unit # ""
    /\ unit # items[id].functional_unit
    /\ ~Convertible(unit, items[id].functional_unit)

\* ------------------------------------------------------------------------
\* C1: after construction and after every replacement of the system, the
\* three cached sets are exactly the units with construction, the units
\* with transportation and the streams with an impact item of the current
\* system.
\* ------------------------------------------------------------------------
C1_cached_sets_exact ==
    /\ construction_units = {u \in Systems[system].units : Construction[u] # << >>}
    /\ transportation_units = {u \in Systems[system].units : Transportation[u] # << >>}
    /\ lca_waste_streams = {s \in Systems[system].streams : Streams[s].HasItem}

\* ------------------------------------------------------------------------
\* C2: for a stream s of the linked system, get_normalized_impacts(s)
\* returns, for every indicator, the total excluding s divided by the mass
\* flow of s.
\* ------------------------------------------------------------------------
C2_normalized_is_divided ==
    (last.op = "get_normalized_impacts" /\ last.waste_stream \in Systems[system].streams)
    => /\ last.err = ""
       /\ DOMAIN last.val = indicators
       /\ \A i \in indicators :
              last.val[i] = RDiv(get_total_impacts(last.waste_stream).val[i],
                                 Streams[last.waste_stream].F_mass)

\* ------------------------------------------------------------------------
\* C3: a quantity given with a unit that does not convert to the functional
\* unit of the item makes the call fail with a conversion error and stores
\* nothing, in add_other_item and in the constructor alike.
\* ------------------------------------------------------------------------
C3_init_fails ==
    last.op = "__init__" =>
        \A k \in DOMAIN last.item_quantities :
            ~(last.item_quantities[k].tuple /\ Inconvertible(k, last.item_quantities[k].unit))

C3_add_fails ==
    (last.op = "add_other_item" /\ Inconvertible(last.item, last.unit))
    => (last.err = "ValueError" /\ other_items = last.old)

C3_conversion_error_raised == C3_init_fails /\ C3_add_fails

\* ------------------------------------------------------------------------
\* C4 (as claimed): get_normalized_impacts of a stream that is not in the
\* linked system raises a ValueError-class error and returns no mapping.
\* ------------------------------------------------------------------------
C4_raises_ValueError ==
    (last.op = "get_normalized_impacts" /\ last.waste_stream \notin Systems[system].streams)
    => (last.err = "ValueError" /\ last.val = EmptyMap)

\* C4 (amended): get_normalized_impacts of a stream that is not in the
\* linked system raises AssertionError and returns no mapping, in every
\* state, also after the system was replaced.
C4_raises_AssertionError ==
    (last.op = "get_normalized_impacts" /\ last.waste_stream \notin Systems[system].streams)
    => (last.err = "AssertionError" /\ last.val = EmptyMap)

\* a stream of a replaced system, still cached, is refused
C4_witness ==
    /\ last.op = "get_normalized_impacts"
    /\ last.waste_stream \notin Systems[system].streams
    /\ last.waste_stream \in lca_waste_streams
    /\ last.err = "AssertionError"

\* ------------------------------------------------------------------------
\* C5: in every state total_impacts is, indicator by indicator, the sum of
\* the construction, transportation, waste stream and other impacts, and
\* has no key outside indicators.
\* ------------------------------------------------------------------------
C5_total_is_sum_of_parts ==
    /\ total_impacts.err = ""
    /\ other_impacts.err = ""
    /\ DOMAIN total_impacts.val \subseteq indicators
    /\ \A i \in indicators :
           total_impacts.val[i] =
               RAdd(RAdd(RAdd(construction_impacts[i], transportation_impacts[i]),
                         waste_stream_impacts[i]),
                    other_impacts.val[i])

\* ------------------------------------------------------------------------
\* C6: indicators is the union of the indicators of the cached entities and
\* of the other items, and it is the key set of each of the five impact
\* mappings.
\* ------------------------------------------------------------------------
C6_indicator_closure ==
    /\ indicators = IndicatorUnion
    /\ DOMAIN construction_impacts = IndicatorUnion
    /\ DOMAIN transportation_impacts = IndicatorUnion
    /\ DOMAIN waste_stream_impacts = IndicatorUnion
    /\ other_impacts.err = "" /\ DOMAIN other_impacts.val = IndicatorUnion
    /\ total_impacts.err = "" /\ DOMAIN total_impacts.val = IndicatorUnion

\* ------------------------------------------------------------------------
\* C7: for every stream s of the linked system, the total computed with s
\* excluded is total_impacts minus the waste stream contribution of s.
\* ------------------------------------------------------------------------
C7_exclusion_removes_own_contribution ==
    \A s \in Systems[system].streams :
        /\ get_total_impacts(s).err = ""
        /\ total_impacts.err = ""
        /\ \A i \in indicators :
               get_total_impacts(s).val[i] =
                   RSub(total_impacts.val[i], OwnContribution(s, i, life_time))

\* ------------------------------------------------------------------------
\* C8: each category mapping is the sum given by its scaling rule:
\* construction raw, transportation raw * life_time / interval, waste
\* streams factor * life_time * mass flow, other items factor * quantity.
\* ------------------------------------------------------------------------
C8_scaling_rules ==
    /\ \A i \in indicators :
           /\ construction_impacts[i] = ConstructionSum(i)
           /\ transportation_impacts[i] = TransportationSum(i, life_time)
           /\ waste_stream_impacts[i] = WasteStreamSum(i, life_time)
    /\ other_impacts.err = ""
    /\ \A i \in indicators : other_impacts.val[i] = OtherSum(i)

\* ------------------------------------------------------------------------
\* C9: replacing the life time L by 2*L, all else unchanged, doubles every
\* transportation impact and every waste stream impact and leaves the
\* construction impacts and the other impacts as they were.
\* ------------------------------------------------------------------------
C9_life_time_doubling ==
    (last.op = "life_time" /\ last.err = "" /\ life_time = RMul(R(2), last.old.life_time))
    => /\ \A i \in indicators :
              /\ transportation_impacts[i] = RMul(R(2), last.old.transportation_impacts[i])
              /\ waste_stream_impacts[i] = RMul(R(2), last.old.waste_stream_impacts[i])
       /\ construction_impacts = last.old.construction_impacts
       /\ other_impacts = last.old.other_impacts

\* the life time was doubled in a state where every category has a
\* non-zero impact
C9_witness ==
    /\ last.op = "life_time"
    /\ life_time = RMul(R(2), last.old.life_time)
    /\ \E i \in indicators : last.old.transportation_impacts[i] # Zero
    /\ \E i \in indicators : last.old.waste_stream_impacts[i] # Zero
    /\ \E i \in indicators : construction_impacts[i] # Zero
    /\ other_impacts.err = "" /\ \E i \in indicators : other_impacts.val[i] # Zero

\* ------------------------------------------------------------------------
\* C10: a successful add_other_item sets other_items[ID] to the quantity in
\* the functional unit of the item (unchanged when the unit is empty or is
\* the functional unit), leaves the other entries, the life time, the
\* system and the cached sets alone; no step removes a key of other_items.
\* ------------------------------------------------------------------------
InFunctionalUnit(id, quantity, unit) ==
    LET fu == items[id].functional_unit
    IN  IF unit = "" \/ unit = fu THEN quantity
        ELSE RMul(quantity, Rat(UnitSize[unit], UnitSize[fu]))

C10_add_step ==
    /\ DOMAIN other_items \subseteq DOMAIN other_items'
    /\ (last'.op = "add_other_item" /\ last'.err = "")
       => /\ DOMAIN other_items' = DOMAIN other_items \cup {last'.item}
          /\ other_items'[last'.item] =
                 Float(InFunctionalUnit(last'.item, last'.quantity, last'.unit))
          /\ \A k \in DOMAIN other_items \ {last'.item} : other_items'[k] = other_items[k]
          /\ UNCHANGED <<system, construction_units, transportation_units,
                         lca_waste_streams, life_time>>

C10_add_other_item_frame == [][C10_add_step]_vars

\* an item passed by reference, with a unit that needed conversion, was
\* stored over an earlier entry next to another entry
C10_witness ==
    /\ last.op = "add_other_item"
    /\ last.err = ""
    /\ last.form = "ref"
    /\ last.unit = "MWh"
    /\ other_items[last.item] = Float(R(2000))
    /\ Cardinality(DOMAIN other_items) = 2

\* ------------------------------------------------------------------------
\* The aggregation properties in the states where no (float, unit) tuple
\* is stored in other_items, that is where other_impacts does not raise
\* ------------------------------------------------------------------------
SumOfPartsWithoutStoredTuple == ~other_raises => C5_total_is_sum_of_parts
ClosureWithoutStoredTuple == ~other_raises => C6_indicator_closure
ExclusionWithoutStoredTuple == ~other_raises => C7_exclusion_removes_own_contribution
ScalingWithoutStoredTuple == ~other_raises => C8_scaling_rules
====
